---- MODULE Spec2Model ----
(***************************************************************************)
(* A model of LoggableObject (src/loggable-object.ts): the _logs table,    *)
(* the append path (log / warn / error -> _addLogEntry -> _cleanupOldLogs),*)
(* the query engine (getLogs) and the request adapter (handleLogRequest).  *)
(*                                                                         *)
(* Strings are sequences of one-character strings, so that the code's      *)
(* string operations (toISOString, JSON.stringify, LIKE, parseInt, the     *)
(* byte-wise comparison of TEXT columns) are computed, not assumed.        *)
(***************************************************************************)
EXTENDS Integers, Sequences, FiniteSets, TLC

VARIABLES
    logs,            \* the rows of table _logs
    seq,             \* sqlite_sequence of _logs: the largest id ever assigned
    now,             \* the wall clock, in ticks
    retainLogHours,  \* the field of the same name
    sqlFault,        \* which statement the storage engine currently fails
    waitUntil,       \* the promises handed to ctx.waitUntil, by outcome
    ret,             \* what the most recent public call returned or threw
    appended,        \* history: the (level, payload) of every accepted append
    asked,           \* history: the arguments of the most recent public call
    tail             \* history: what the latest client of GET /log has seen

vars == <<logs, seq, now, retainLogHours, sqlFault, waitUntil, ret, appended, asked, tail>>

----------------------------------------------------------------------------
(* Bounds of the model. *)

\* log/warn/error calls that reach the INSERT, per behaviour
MaxAppends == 3
\* clock ticks in one hour (the resolution of a timestamp's fraction)
TicksPerHour == 2
\* single ticks the clock may take past a multiple of the retention period
MaxSubTicks == 1
\* whole retention periods the clock may jump
MaxJumps == 1
\* rows the burst specification writes: one more than the default page
MaxBurst == 101

----------------------------------------------------------------------------
(* Characters and byte-wise string comparison. *)

\* the characters used, in ASCII order
AsciiOrder ==
    << "\n", " ", "\"", "%", ",", "-", ".",
       "0", "1", "2", "3", "4", "5", "6", "7", "8", "9", ":",
       "A", "B", "Z", "[", "]", "_",
       "a", "b", "c", "l", "n", "u", "x", "{", "}" >>

CodeTable ==
    [c \in {AsciiOrder[i] : i \in 1..Len(AsciiOrder)} |->
        CHOOSE i \in 1..Len(AsciiOrder) : AsciiOrder[i] = c]

Code(c) == CodeTable[c]

DigitChars == <<"0", "1", "2", "3", "4", "5", "6", "7", "8", "9">>

IsDigit(c) == \E i \in 1..10 : DigitChars[i] = c

DigitChar(n) == DigitChars[n + 1]

DigitVal(c) == (CHOOSE i \in 1..10 : DigitChars[i] = c) - 1

\* memcmp order of two TEXT values (SQLite's BINARY collation): -1, 0 or 1
RECURSIVE StrCmp(_, _)
StrCmp(a, b) ==
    IF a = b THEN 0
    ELSE IF a = <<>> THEN -1
    ELSE IF b = <<>> THEN 1
    ELSE IF Head(a) = Head(b) THEN StrCmp(Tail(a), Tail(b))
    ELSE IF Code(Head(a)) < Code(Head(b)) THEN -1 ELSE 1

\* ASCII case folding, as LIKE applies it
Lower(c) == IF c = "A" THEN "a" ELSE IF c = "B" THEN "b" ELSE IF c = "Z" THEN "z" ELSE c


----------------------------------------------------------------------------
(* Time.  An instant is a count of ticks; Date.prototype.toISOString       *)
(* renders it as fixed-width fields, most significant first, then ".", the *)
(* fraction and "Z".  The fields before the fraction (YYYY-MM-DDTHH:mm:ss  *)
(* in the code) are one four-digit count of hours here.                    *)

toISOString(t) ==
    LET h == t \div TicksPerHour
        f == t % TicksPerHour
    IN  << DigitChar((h \div 1000) % 10), DigitChar((h \div 100) % 10),
           DigitChar((h \div 10) % 10), DigitChar(h % 10),
           ".", DigitChar((f * 10) \div TicksPerHour), "Z" >>

\* the default of the retainLogHours field
DefaultRetainLogHours == 30 * 24

\* the retention a subclass sets in its constructor (README, 14 days)
CustomRetainLogHours == 14 * 24

\* the clock starts late enough for every cutoff to be a date of the model
StartOfTime == DefaultRetainLogHours * TicksPerHour

JumpTicks == DefaultRetainLogHours * TicksPerHour

----------------------------------------------------------------------------
(* Payloads: what log/warn/error accept (string | object).  A value is a   *)
(* tagged record; v is always a sequence.                                  *)

StringValue(s) == [t |-> "string", v |-> s]

NumberValue(n) == [t |-> "number", v |-> <<n>>]

NullValue == [t |-> "null", v |-> <<>>]

DateValue(i) == [t |-> "Date", v |-> <<i>>]

ArrayValue(items) == [t |-> "array", v |-> items]

\* members: a sequence of [k |-> key, val |-> value]
ObjectValue(members) == [t |-> "object", v |-> members]

RECURSIVE Join(_, _)
Join(parts, sep) ==
    IF parts = <<>> THEN <<>>
    ELSE IF Len(parts) = 1 THEN parts[1]
    ELSE parts[1] \o sep \o Join(Tail(parts), sep)

RECURSIVE NumberToString(_)
NumberToString(n) ==
    IF n < 10 THEN <<DigitChar(n)>>
    ELSE NumberToString(n \div 10) \o <<DigitChar(n % 10)>>

Quoted(s) == <<"\"">> \o s \o <<"\"">>

Spaces(n) == [i \in 1..n |-> " "]

\* JSON.stringify(value, null, gap): with a gap, every member and element goes on a
\* line of its own, indented by gap spaces per level, and ": " follows a key; with
\* gap 0 there is no white space
RECURSIVE JsonIndented(_, _, _)
JsonIndented(x, gap, depth) ==
    LET Break(n) == IF gap = 0 THEN <<>> ELSE <<"\n">> \o Spaces(gap * n)
        colon == IF gap = 0 THEN <<":">> ELSE <<":", " ">>
    IN  CASE x.t = "string" -> Quoted(x.v)
          [] x.t = "number" -> NumberToString(x.v[1])
          [] x.t = "null"   -> <<"n", "u", "l", "l">>
          [] x.t = "Date"   -> Quoted(toISOString(x.v[1]))
          [] x.t = "array"  ->
                IF x.v = <<>> THEN <<"[", "]">>
                ELSE <<"[">> \o Break(depth + 1)
                     \o Join([i \in 1..Len(x.v) |-> JsonIndented(x.v[i], gap, depth + 1)],
                             <<",">> \o Break(depth + 1))
                     \o Break(depth) \o <<"]">>
          [] x.t = "object" ->
                IF x.v = <<>> THEN <<"{", "}">>
                ELSE <<"{">> \o Break(depth + 1)
                     \o Join([i \in 1..Len(x.v) |->
                                Quoted(x.v[i].k) \o colon
                                \o JsonIndented(x.v[i].val, gap, depth + 1)],
                             <<",">> \o Break(depth + 1))
                     \o Break(depth) \o <<"}">>

\* JSON.stringify(value, null, 2) in place of JSON.stringify(value)
JsonStringifyIndented(x) == JsonIndented(x, 2, 0)

\* JSON.stringify(value): no indent argument, so no white space at all.  A Date
\* serializes through its toJSON, which is toISOString.
RECURSIVE JsonStringify(_)
JsonStringify(x) ==
    CASE x.t = "string" -> Quoted(x.v)
      [] x.t = "number" -> NumberToString(x.v[1])
      [] x.t = "null"   -> <<"n", "u", "l", "l">>
      [] x.t = "Date"   -> Quoted(toISOString(x.v[1]))
      [] x.t = "array"  ->
            <<"[">> \o Join([i \in 1..Len(x.v) |-> JsonStringify(x.v[i])], <<",">>) \o <<"]">>
      [] x.t = "object" ->
            <<"{">>
            \o Join([i \in 1..Len(x.v) |->
                        Quoted(x.v[i].k) \o <<":">> \o JsonStringify(x.v[i].val)], <<",">>)
            \o <<"}">>

\* JSON.parse, by recursive descent.  A step yields [ok, val, rest].
ParseFail == [ok |-> FALSE, val |-> <<>>, rest |-> <<>>]

ParseOk(val, rest) == [ok |-> TRUE, val |-> val, rest |-> rest]

RECURSIVE SkipWs(_)
SkipWs(s) == IF s # <<>> /\ Head(s) \in {" ", "\n"} THEN SkipWs(Tail(s)) ELSE s

\* the characters of a string literal, after its opening quote
RECURSIVE ParseChars(_, _)
ParseChars(s, acc) ==
    IF s = <<>> THEN ParseFail
    ELSE IF Head(s) = "\"" THEN ParseOk(acc, Tail(s))
    ELSE ParseChars(Tail(s), Append(acc, Head(s)))

RECURSIVE ParseDigits(_, _)
ParseDigits(s, acc) ==
    IF s # <<>> /\ IsDigit(Head(s))
    THEN ParseDigits(Tail(s), acc * 10 + DigitVal(Head(s)))
    ELSE ParseOk(acc, s)

StartsWith(s, p) == Len(s) >= Len(p) /\ SubSeq(s, 1, Len(p)) = p

RECURSIVE ParseValue(_), ParseElements(_, _), ParseMembers(_, _)
ParseValue(s0) ==
    LET s == SkipWs(s0) IN
    IF s = <<>> THEN ParseFail
    ELSE IF Head(s) = "\"" THEN
        LET r == ParseChars(Tail(s), <<>>) IN
        IF r.ok THEN ParseOk(StringValue(r.val), r.rest) ELSE ParseFail
    ELSE IF IsDigit(Head(s)) THEN
        LET r == ParseDigits(s, 0) IN ParseOk(NumberValue(r.val), r.rest)
    ELSE IF StartsWith(s, <<"n", "u", "l", "l">>) THEN
        ParseOk(NullValue, SubSeq(s, 5, Len(s)))
    ELSE IF Head(s) = "[" THEN
        LET r == SkipWs(Tail(s)) IN
        IF r # <<>> /\ Head(r) = "]" THEN ParseOk(ArrayValue(<<>>), Tail(r))
        ELSE ParseElements(r, <<>>)
    ELSE IF Head(s) = "{" THEN
        LET r == SkipWs(Tail(s)) IN
        IF r # <<>> /\ Head(r) = "}" THEN ParseOk(ObjectValue(<<>>), Tail(r))
        ELSE ParseMembers(r, <<>>)
    ELSE ParseFail

\* value ("," value)* "]"
ParseElements(s, acc) ==
    LET e == ParseValue(s) IN
    IF ~e.ok THEN ParseFail
    ELSE LET r == SkipWs(e.rest) IN
         IF r = <<>> THEN ParseFail
         ELSE IF Head(r) = "]" THEN ParseOk(ArrayValue(Append(acc, e.val)), Tail(r))
         ELSE IF Head(r) = "," THEN ParseElements(Tail(r), Append(acc, e.val))
         ELSE ParseFail

\* string ":" value ("," string ":" value)* "}"
ParseMembers(s0, acc) ==
    LET s == SkipWs(s0) IN
    IF s = <<>> \/ Head(s) # "\"" THEN ParseFail
    ELSE LET key == ParseChars(Tail(s), <<>>) IN
         IF ~key.ok THEN ParseFail
         ELSE LET c == SkipWs(key.rest) IN
              IF c = <<>> \/ Head(c) # ":" THEN ParseFail
              ELSE LET e == ParseValue(Tail(c)) IN
                   IF ~e.ok THEN ParseFail
                   ELSE LET r == SkipWs(e.rest)
                            m == Append(acc, [k |-> key.val, val |-> e.val])
                        IN  IF r = <<>> THEN ParseFail
                            ELSE IF Head(r) = "}" THEN ParseOk(ObjectValue(m), Tail(r))
                            ELSE IF Head(r) = "," THEN ParseMembers(Tail(r), m)
                            ELSE ParseFail

SyntaxError == [t |-> "SyntaxError", v |-> <<>>]

JsonParse(s) ==
    LET r == ParseValue(s) IN
    IF r.ok /\ SkipWs(r.rest) = <<>> THEN r.val ELSE SyntaxError

\* the payloads the model appends
Payloads ==
    { StringValue(<<"a", "b">>),
      ObjectValue(<< [k |-> <<"a">>, val |-> NumberValue(1)] >>),
      ObjectValue(<< [k |-> <<"a">>, val |-> DateValue(StartOfTime)] >>) }

----------------------------------------------------------------------------
(* The _logs table and the append path. *)

Info == <<"i", "n", "f", "o">>

Warn == <<"w", "a", "r", "n">>

Error == <<"e", "r", "r", "o", "r">>

Levels == {Info, Warn, Error}

\* what a public call handed back: nothing, an exception, null or a Response
Returned(kind, contentType, rows, total) ==
    [kind |-> kind, contentType |-> contentType, logs |-> rows, total |-> total]

Void == Returned("void", "", <<>>, 0)

Threw == Returned("threw", "", <<>>, 0)

Null == Returned("null", "", <<>>, 0)

NotAsked == [t |-> "none", v |-> <<>>]

\* history: a call of log, warn or error, by the level and the payload it passes on
Called(level, message) == [t |-> "append", v |-> <<level, message>>]

NoClient == [requested |-> FALSE, at |-> 0, seq |-> 0, history |-> {}, body |-> <<>>]

\* the DELETE with <= for <
DeleteOlderThanOrAt(table, cutoff) ==
    {r \in table : ~(StrCmp(r.timestamp, cutoff) <= 0)}

\* DELETE FROM _logs WHERE timestamp < ?   (a comparison of TEXT values)
DeleteOlderThan(table, cutoff) ==
    {r \in table : ~(StrCmp(r.timestamp, cutoff) < 0)}

\* _cleanupOldLogs up to its DELETE: cutoffDate.setHours(getHours() - retainLogHours),
\* then toISOString
CutoffDate == now - retainLogHours * TicksPerHour

\* _cleanupOldLogs is an async function with no await: its body, the DELETE
\* included, runs inside the call, and the promise it returns is already settled
\* when ctx.waitUntil receives it.  A DELETE that throws rejects the promise.
CleanupOldLogs(table) ==
    IF sqlFault = "delete"
    THEN [table |-> table, promise |-> "rejected"]
    ELSE [table |-> DeleteOlderThan(table, toISOString(CutoffDate)),
          promise |-> "fulfilled"]

\* _addLogEntry with the INSERT's exception caught and dropped
AddLogEntrySwallowingInsertFailure(level, message) ==
    LET row == [id |-> seq + 1, timestamp |-> toISOString(now), level |-> level,
                message |-> IF message.t = "string" THEN message.v ELSE JsonStringify(message)]
        cleanup == CleanupOldLogs(logs \cup {row})
    IN  /\ ret' = Void
        /\ asked' = Called(level, message)
        /\ tail' = tail
        /\ IF sqlFault = "insert"
           THEN UNCHANGED <<logs, seq, waitUntil>>
           ELSE /\ seq' = seq + 1
                /\ logs' = cleanup.table
                /\ waitUntil' = Append(waitUntil, cleanup.promise)

\* _addLogEntry awaiting the cleanup, so that a failed DELETE fails the append
AddLogEntryAwaitingCleanup(level, message) ==
    LET row == [id |-> seq + 1, timestamp |-> toISOString(now), level |-> level,
                message |-> IF message.t = "string" THEN message.v ELSE JsonStringify(message)]
        cleanup == CleanupOldLogs(logs \cup {row})
    IN  IF sqlFault = "insert"
        THEN /\ ret' = Threw
             /\ asked' = Called(level, message)
             /\ UNCHANGED <<logs, seq, waitUntil, tail>>
        ELSE /\ seq' = seq + 1
             /\ logs' = cleanup.table
             /\ waitUntil' = Append(waitUntil, cleanup.promise)
             /\ tail' = tail
             /\ asked' = Called(level, message)
             /\ ret' = IF cleanup.promise = "rejected" THEN Threw ELSE Void

\* _addLogEntry numbering a row by the count of rows in the table
AddLogEntryNumberingByCount(level, message) ==
    LET row == [id |-> Cardinality(logs) + 1, timestamp |-> toISOString(now), level |-> level,
                message |-> IF message.t = "string" THEN message.v ELSE JsonStringify(message)]
        cleanup == CleanupOldLogs(logs \cup {row})
    IN  IF sqlFault = "insert"
        THEN /\ ret' = Threw
             /\ asked' = Called(level, message)
             /\ UNCHANGED <<logs, seq, waitUntil, tail>>
        ELSE /\ seq' = seq + 1
             /\ logs' = cleanup.table
             /\ waitUntil' = Append(waitUntil, cleanup.promise)
             /\ tail' = tail
             /\ asked' = Called(level, message)
             /\ ret' = Void

\* _addLogEntry: timestamp, message string, INSERT, then waitUntil(cleanup).
\* An INSERT that throws leaves the function at once.
AddLogEntry(level, message) ==
    LET timestamp == toISOString(now)
        messageStr == IF message.t = "string" THEN message.v ELSE JsonStringify(message)
        row == [id |-> seq + 1, timestamp |-> timestamp,
                level |-> level, message |-> messageStr]
        cleanup == CleanupOldLogs(logs \cup {row})
    IN  IF sqlFault = "insert"
        THEN /\ ret' = Threw
             /\ UNCHANGED <<logs, seq, waitUntil, tail>>
             /\ asked' = Called(level, message)
        ELSE /\ seq' = seq + 1
             /\ logs' = cleanup.table
             /\ waitUntil' = Append(waitUntil, cleanup.promise)
             /\ tail' = tail
             /\ asked' = Called(level, message)
             /\ ret' = Void

\* history: a call of log, warn or error whose INSERT went through
Accepted(level, message) ==
    appended' = IF seq' # seq
                THEN Append(appended, [level |-> level, payload |-> message])
                ELSE appended

log ==
    /\ seq < MaxAppends
    /\ \E message \in Payloads :
          AddLogEntry(Info, message) /\ Accepted(Info, message)
    /\ UNCHANGED <<now, retainLogHours, sqlFault>>

\* warn passing the level of log
warnAsInfo ==
    /\ seq < MaxAppends
    /\ \E message \in Payloads :
          AddLogEntry(Info, message) /\ Accepted(Warn, message)
    /\ UNCHANGED <<now, retainLogHours, sqlFault>>

warn ==
    /\ seq < MaxAppends
    /\ \E message \in Payloads :
          AddLogEntry(Warn, message) /\ Accepted(Warn, message)
    /\ UNCHANGED <<now, retainLogHours, sqlFault>>

error ==
    /\ seq < MaxAppends
    /\ \E message \in Payloads :
          AddLogEntry(Error, message) /\ Accepted(Error, message)
    /\ UNCHANGED <<now, retainLogHours, sqlFault>>

\* the wall clock advances by one tick
Tick ==
    /\ (now - StartOfTime) % JumpTicks < MaxSubTicks
    /\ now' = now + 1
    /\ UNCHANGED <<logs, seq, retainLogHours, sqlFault, waitUntil, ret, appended, asked, tail>>

\* the object sleeps for a whole default retention period
Sleep ==
    /\ (now - StartOfTime) \div JumpTicks < MaxJumps
    /\ now' = now + JumpTicks
    /\ UNCHANGED <<logs, seq, retainLogHours, sqlFault, waitUntil, ret, appended, asked, tail>>

\* a subclass assigns this.retainLogHours, and the assignment sweeps at once
SetRetainLogHoursSweeping ==
    /\ \E h \in {DefaultRetainLogHours, CustomRetainLogHours} :
          /\ h # retainLogHours
          /\ retainLogHours' = h
          /\ logs' = DeleteOlderThan(logs, toISOString(now - h * TicksPerHour))
    /\ UNCHANGED <<seq, now, sqlFault, waitUntil, ret, appended, asked, tail>>

\* a subclass assigns this.retainLogHours
SetRetainLogHours ==
    /\ \E h \in {DefaultRetainLogHours, CustomRetainLogHours} :
          /\ h # retainLogHours
          /\ retainLogHours' = h
    /\ UNCHANGED <<logs, seq, now, sqlFault, waitUntil, ret, appended, asked, tail>>

\* the storage engine starts or stops failing a statement
StorageFault ==
    /\ \E f \in {"none", "insert", "delete"} :
          /\ f # sqlFault
          /\ sqlFault' = f
    /\ UNCHANGED <<logs, seq, now, retainLogHours, waitUntil, ret, appended, asked, tail>>

----------------------------------------------------------------------------
(* The query engine: getLogs. *)

Undefined == [t |-> "undefined", v |-> <<>>]

NaN == [t |-> "NaN", v |-> <<>>]

\* JavaScript truthiness, as in  if (filter.limit)
Truthy(x) ==
    CASE x.t \in {"undefined", "NaN", "null"} -> FALSE
      [] x.t = "string" -> x.v # <<>>
      [] x.t = "number" -> x.v[1] # 0
      [] OTHER -> TRUE

LogFilter(level, search, from, to, limit, offset) ==
    [level |-> level, search |-> search, from |-> from, to |-> to,
     limit |-> limit, offset |-> offset]

\* SQLite's  string LIKE pattern : % is any run of characters, _ any one
\* character, letters match without regard to case, and nothing escapes them
RECURSIVE Like(_, _)
Like(str, pattern) ==
    IF pattern = <<>> THEN str = <<>>
    ELSE IF Head(pattern) = "%" THEN
        Like(str, Tail(pattern)) \/ (str # <<>> /\ Like(Tail(str), pattern))
    ELSE IF str = <<>> THEN FALSE
    ELSE IF Head(pattern) = "_" THEN Like(Tail(str), Tail(pattern))
    ELSE Lower(Head(pattern)) = Lower(Head(str)) /\ Like(Tail(str), Tail(pattern))

\* filter.from instanceof Date ? filter.from.toISOString() : filter.from
BoundText(bound) == IF bound.t = "Date" THEN toISOString(bound.v[1]) ELSE bound.v

\* the WHERE clause getLogs builds:  1=1 AND ... , one conjunct per truthy field
Where(table, filter) ==
    {r \in table :
        /\ Truthy(filter.level) => r.level = filter.level.v
        /\ Truthy(filter.search) => Like(r.message, <<"%">> \o filter.search.v \o <<"%">>)
        /\ Truthy(filter.from) => StrCmp(r.timestamp, BoundText(filter.from)) >= 0
        /\ Truthy(filter.to) => StrCmp(r.timestamp, BoundText(filter.to)) <= 0}

\* SQL leaves the order of rows with equal timestamps to the query plan: a
\* backward scan of idx_logs_timestamp yields them by descending rowid, a sort
\* of the table scan by ascending rowid
QueryPlans == {"index scan", "table scan"}

\* whether row a comes before row b under ORDER BY timestamp DESC
ComesBefore(a, b, plan) ==
    IF a.timestamp = b.timestamp
    THEN (IF plan = "index scan" THEN a.id > b.id ELSE a.id < b.id)
    ELSE StrCmp(a.timestamp, b.timestamp) > 0

RECURSIVE OrderByTimestampDesc(_, _)
OrderByTimestampDesc(rows, plan) ==
    IF rows = {} THEN <<>>
    ELSE LET first == CHOOSE r \in rows : \A q \in rows : q = r \/ ComesBefore(r, q, plan)
         IN  <<first>> \o OrderByTimestampDesc(rows \ {first}, plan)

\* LIMIT ? OFFSET ? as SQLite applies them: a negative limit is no limit, a
\* negative offset is no offset
LimitOffset(rows, limit, offset) ==
    LET skip == IF offset < 0 THEN 0 ELSE offset
        rest == SubSeq(rows, skip + 1, Len(rows))
    IN  IF limit < 0 \/ limit >= Len(rest) THEN rest ELSE SubSeq(rest, 1, limit)

\* the pagination with the OFFSET clause left out
PaginateWithoutOffset(rows, filter) ==
    IF Truthy(filter.limit) THEN LimitOffset(rows, filter.limit.v[1], 0) ELSE rows

\* the pagination getLogs adds: LIMIT if filter.limit is truthy, OFFSET only then
\* and only if filter.offset is truthy
Paginate(rows, filter) ==
    IF Truthy(filter.limit)
    THEN LimitOffset(rows, filter.limit.v[1],
                     IF Truthy(filter.offset) THEN filter.offset.v[1] ELSE 0)
    ELSE rows

getLogs(table, filter, plan) ==
    LET matching == Where(table, filter)
    IN  [logs |-> Paginate(OrderByTimestampDesc(matching, plan), filter),
         total |-> Cardinality(matching)]

\* the filters the model queries with: every combination of conditions, and
\* every combination of limit and offset
PredicateFilters ==
    { LogFilter(l, s, f, t, Undefined, Undefined) :
        l \in {Undefined, StringValue(Warn)},
        s \in {Undefined, StringValue(<<"a">>), StringValue(<<"_">>)},
        f \in {Undefined, DateValue(StartOfTime + 1), StringValue(toISOString(StartOfTime + 1))},
        t \in {Undefined, DateValue(StartOfTime)} }

PageFilters ==
    { LogFilter(l, Undefined, Undefined, Undefined, lim, off) :
        l \in {Undefined, StringValue(Warn)},
        lim \in {Undefined, NumberValue(0), NumberValue(1), NumberValue(2), NumberValue(-1)},
        off \in {Undefined, NumberValue(1), NumberValue(2), NumberValue(-1)} }

\* an ISO-8601 string without a fraction of a second, as the README writes its
\* bounds (2023-09-01T00:00:00Z); t is a whole hour
IsoWithoutFraction(t) == SubSeq(toISOString(t), 1, 4) \o <<"Z">>

\* filters with the README's form of from and to
ReadmeBoundFilters ==
    { LogFilter(Undefined, Undefined, f, t, Undefined, Undefined) :
        f \in {Undefined, StringValue(IsoWithoutFraction(StartOfTime))},
        t \in {Undefined, StringValue(IsoWithoutFraction(StartOfTime))} }

Filters == PredicateFilters \cup PageFilters \cup ReadmeBoundFilters

\* no query result is waiting to be read: the model takes one query at a time
Idle == ret.kind \in {"void", "threw"}

\* a call of getLogs(filter) by the host
GetLogs ==
    /\ Idle
    /\ \E filter \in Filters, plan \in QueryPlans :
          LET result == getLogs(logs, filter, plan)
          IN  /\ ret' = Returned("result", "", result.logs, result.total)
              /\ asked' = filter
    /\ UNCHANGED <<logs, seq, now, retainLogHours, sqlFault, waitUntil, appended, tail>>

----------------------------------------------------------------------------
(* The request adapter: handleLogRequest. *)

\* the limit handleLogRequest uses when the request names none
DefaultLimit == 100

\* parseInt(s, 10): white space, a sign, then the longest run of digits; NaN
\* when there is no digit
ParseInt(s) ==
    LET t == SkipWs(s)
        signed == t # <<>> /\ Head(t) \in {"-", "+"}
        digits == IF signed THEN Tail(t) ELSE t
    IN  IF digits = <<>> \/ ~IsDigit(Head(digits)) THEN NaN
        ELSE IF signed /\ Head(t) = "-"
             THEN NumberValue(0 - ParseDigits(digits, 0).val)
             ELSE NumberValue(ParseDigits(digits, 0).val)

\* a request: a query parameter is Undefined when url.searchParams has none of
\* that name, and else a string; accept is the list of media types of the Accept
\* header
Request(method, pathname, level, search, from, to, limit, offset, accept) ==
    [method |-> method, pathname |-> pathname, level |-> level, search |-> search,
     from |-> from, to |-> to, limit |-> limit, offset |-> offset, accept |-> accept]

Has(param) == param.t # "undefined"

\* url.searchParams.get(name) || fallback
GetOr(param, fallback) == IF param.v = <<>> THEN fallback ELSE param.v

\* the LogFilter handleLogRequest parses from the query parameters
ParseFilter(request) ==
    LogFilter(
        IF Has(request.level) /\ request.level.v \in {Info, Warn, Error}
            THEN request.level ELSE Undefined,
        IF Has(request.search) /\ request.search.v # <<>> THEN request.search ELSE Undefined,
        IF Has(request.from) /\ request.from.v # <<>> THEN request.from ELSE Undefined,
        IF Has(request.to) /\ request.to.v # <<>> THEN request.to ELSE Undefined,
        IF Has(request.limit)
            THEN ParseInt(GetOr(request.limit, NumberToString(DefaultLimit)))
            ELSE NumberValue(DefaultLimit),
        IF Has(request.offset) THEN ParseInt(GetOr(request.offset, <<"0">>)) ELSE Undefined)

\* handleLogRequest: null unless GET /log; else the page of logs, as HTML when the
\* Accept header includes text/html and as JSON otherwise
handleLogRequest(table, request, plan) ==
    IF request.pathname = "/log" /\ request.method = "GET"
    THEN LET result == getLogs(table, ParseFilter(request), plan)
         IN  Returned("response",
                      IF \E i \in 1..Len(request.accept) : request.accept[i] = "text/html"
                          THEN "text/html" ELSE "application/json",
                      result.logs, result.total)
    ELSE Null

\* curl http://host/log : no query parameters, Accept: */*
CurlRequest ==
    Request("GET", "/log", Undefined, Undefined, Undefined, Undefined,
            Undefined, Undefined, <<"*/*">>)

\* the values the model gives the limit and offset query parameters
LimitParams ==
    { Undefined, StringValue(<<>>), StringValue(<<"a", "b", "c">>), StringValue(<<"0">>),
      StringValue(<<"-", "1">>), StringValue(<<"2">>), StringValue(<<"1", "0", "1">>) }

OffsetParams ==
    { Undefined, StringValue(<<>>), StringValue(<<"x">>), StringValue(<<"-", "1">>),
      StringValue(<<"1">>) }

LevelParams == { Undefined, StringValue(Warn), StringValue(<<"l", "o", "g">>) }

\* the requests the model sends: every limit with and without an offset, every
\* offset with and without a limit, every level, and every method and path
Requests ==
    { Request("GET", "/log", Undefined, Undefined, Undefined, Undefined, limit, offset, <<"*/*">>) :
        limit \in LimitParams, offset \in {Undefined, StringValue(<<"1">>)} }
    \cup
    { Request("GET", "/log", Undefined, Undefined, Undefined, Undefined, limit, offset, <<"*/*">>) :
        limit \in {Undefined, StringValue(<<"2">>)}, offset \in OffsetParams }
    \cup
    { Request("GET", "/log", level, Undefined, Undefined, Undefined,
              Undefined, Undefined, <<"*/*">>) : level \in LevelParams }
    \cup
    { Request(method, pathname, Undefined, Undefined, Undefined, Undefined,
              Undefined, Undefined, accept) :
        method \in {"GET", "POST"}, pathname \in {"/log", "/"},
        accept \in {<<>>, <<"text/html", "application/xhtml+xml">>} }

\* a request dispatched to handleLogRequest
HandleLogRequest ==
    /\ Idle
    /\ \E request \in Requests, plan \in QueryPlans :
          /\ ret' = handleLogRequest(logs, request, plan)
          /\ asked' = request
    /\ UNCHANGED <<logs, seq, now, retainLogHours, sqlFault, waitUntil, appended, tail>>

\* new Response("Not found", { status: 404 })
NotFound == Returned("notFound", "", <<>>, 0)

\* fetch: the answer of handleLogRequest when there is one, else 404
fetch(table, request, plan) ==
    LET logResponse == handleLogRequest(table, request, plan)
    IN  IF logResponse # Null THEN logResponse ELSE NotFound

\* fetch writing a log entry for the request it handles
FetchLoggingTheRequest ==
    /\ Idle
    /\ \E request \in Requests, plan \in QueryPlans :
          /\ ret' = fetch(logs, request, plan)
          /\ asked' = request
    /\ seq' = seq + 1
    /\ logs' = logs \cup {[id |-> seq + 1, timestamp |-> toISOString(now),
                            level |-> Info, message |-> <<"a", "b">>]}
    /\ UNCHANGED <<now, retainLogHours, sqlFault, waitUntil, appended, tail>>

\* a request dispatched to the default fetch
Fetch ==
    /\ Idle
    /\ \E request \in Requests, plan \in QueryPlans :
          /\ ret' = fetch(logs, request, plan)
          /\ asked' = request
    /\ UNCHANGED <<logs, seq, now, retainLogHours, sqlFault, waitUntil, appended, tail>>

\* a client runs curl /log and keeps reading: what it has received is the body of
\* the one Response; handleLogRequest registers nothing that later appends write to
CurlLog ==
    /\ Idle
    /\ \E plan \in QueryPlans :
          /\ ret' = handleLogRequest(logs, CurlRequest, plan)
          /\ tail' = [requested |-> TRUE, at |-> now, seq |-> seq, history |-> logs,
                      body |-> ret'.logs]
    /\ asked' = CurlRequest
    /\ UNCHANGED <<logs, seq, now, retainLogHours, sqlFault, waitUntil, appended>>

\* the host logs one fixed line per unit of work, MaxBurst times
logBurst ==
    /\ seq < MaxBurst
    /\ AddLogEntry(Info, StringValue(<<"a", "b">>))
    /\ Accepted(Info, StringValue(<<"a", "b">>))
    /\ UNCHANGED <<now, retainLogHours, sqlFault>>

\* the constructor: an empty table (CREATE TABLE IF NOT EXISTS), the default retention
Init ==
    /\ logs = {}
    /\ seq = 0
    /\ now = StartOfTime
    /\ retainLogHours = DefaultRetainLogHours
    /\ sqlFault = "none"
    /\ waitUntil = <<>>
    /\ ret = Void
    /\ appended = <<>>
    /\ tail = NoClient
    /\ asked = NotAsked

Next == log \/ warn \/ error \/ Tick \/ Sleep \/ SetRetainLogHours

Spec == Init /\ [][Next]_vars

----------------------------------------------------------------------------
(* The specifications. *)

\* the append path under storage failures
FaultNext == log \/ warn \/ error \/ StorageFault

FaultSpec == Init /\ [][FaultNext]_vars

\* appends, the clock and queries
QueryNext == log \/ warn \/ error \/ Tick \/ GetLogs

QuerySpec == Init /\ [][QueryNext]_vars

\* a burst of appends and the requests made of it
RequestNext == logBurst \/ HandleLogRequest

RequestSpec == Init /\ [][RequestNext]_vars

\* appends, the clock and a client that tails the log
TailNext == log \/ Tick \/ CurlLog

TailSpec == Init /\ [][TailNext]_vars

\* appends, a sleep of the object, and every kind of read
ReadNext == log \/ error \/ Sleep \/ GetLogs \/ HandleLogRequest \/ Fetch

ReadSpec == Init /\ [][ReadNext]_vars

----------------------------------------------------------------------------
(* What the claims need to be stated. *)

\* Date.parse of a timestamp toISOString wrote
InstantOf(ts) ==
    ParseDigits(SubSeq(ts, 1, 4), 0).val * TicksPerHour
    + (IF ts[5] = "." THEN (DigitVal(ts[6]) * TicksPerHour + 9) \div 10 ELSE 0)

\* the instant a from/to bound names
BoundInstant(bound) == IF bound.t = "Date" THEN bound.v[1] ELSE InstantOf(bound.v)

NoFilter == LogFilter(Undefined, Undefined, Undefined, Undefined, Undefined, Undefined)

Range(f) == {f[i] : i \in DOMAIN f}

Min(a, b) == IF a < b THEN a ELSE b

\* rows by ascending (timestamp, id), or by ascending timestamp and descending id
Ascending(rows, idsAscending) ==
    LET Precedes(a, b) ==
            \/ StrCmp(a.timestamp, b.timestamp) < 0
            \/ a.timestamp = b.timestamp /\ (IF idsAscending THEN a.id < b.id ELSE a.id > b.id)
    IN  [i \in 1..Cardinality(rows) |->
            CHOOSE r \in rows : Cardinality({q \in rows : Precedes(q, r)}) = i - 1]

\* the message an append of this payload is to store
MessageOf(payload) ==
    IF payload.t = "string" THEN payload.v ELSE JsonIndented(payload, 0, 0)

\* a payload made of JSON's own values only
RECURSIVE JsonNative(_)
JsonNative(x) ==
    CASE x.t \in {"string", "number", "null"} -> TRUE
      [] x.t = "array"  -> \A i \in 1..Len(x.v) : JsonNative(x.v[i])
      [] x.t = "object" -> \A i \in 1..Len(x.v) : JsonNative(x.v[i].val)
      [] OTHER -> FALSE

\* sub occurs in str, character for character
Contains(str, sub) ==
    \E i \in 0..(Len(str) - Len(sub)) : SubSeq(str, i + 1, i + Len(sub)) = sub

\* the conjunction of the conditions a filter names
Satisfies(r, filter) ==
    /\ filter.level # Undefined => r.level = filter.level.v
    /\ filter.search # Undefined => Contains(r.message, filter.search.v)
    /\ filter.from # Undefined => InstantOf(r.timestamp) >= BoundInstant(filter.from)
    /\ filter.to # Undefined => InstantOf(r.timestamp) <= BoundInstant(filter.to)

Unpaged(filter) == [filter EXCEPT !.limit = Undefined, !.offset = Undefined]

\* a call of log, warn or error
AppendCall == log \/ warn \/ error

----------------------------------------------------------------------------
(* The claims. *)

\* C1: after N appends through log/warn/error with nothing deleted in between,
\* getLogs({}) returns exactly N entries with total N, and sorted by (timestamp,
\* id) ascending the i-th of them has the level and the message of the i-th append.
C1_AppendsAreReadBack ==
    Cardinality(logs) = Len(appended) =>
        \A plan \in QueryPlans :
            LET result == getLogs(logs, NoFilter, plan)
                sorted == Ascending(Range(result.logs), TRUE)
            IN  /\ result.total = Len(appended)
                /\ Len(result.logs) = Len(appended)
                /\ Len(sorted) = Len(appended)
                /\ \A i \in 1..Len(appended) :
                      /\ sorted[i].level = appended[i].level
                      /\ sorted[i].message = MessageOf(appended[i].payload)

\* three appends of two levels at two instants, none deleted
C1_Witness ==
    /\ Len(appended) >= 3
    /\ Cardinality(logs) = Len(appended)
    /\ Cardinality({r.level : r \in logs}) >= 2
    /\ Cardinality({r.timestamp : r \in logs}) >= 2

ExpectedCount(filter, total) ==
    IF filter.limit = Undefined \/ filter.limit.v[1] = 0 THEN total
    ELSE LET offset == IF filter.offset # Undefined /\ filter.offset.v[1] > 0
                       THEN filter.offset.v[1] ELSE 0
             left == IF total > offset THEN total - offset ELSE 0
         IN  IF filter.limit.v[1] < 0 THEN left ELSE Min(left, filter.limit.v[1])

SweepRan ==
    /\ Len(waitUntil') = Len(waitUntil) + 1
    /\ waitUntil'[Len(waitUntil')] = "fulfilled"

\* C3: after a retention sweep runs at time now with retention retainLogHours,
\* getLogs({}) returns no entry with timestamp < now - retainLogHours, and every
\* entry with timestamp >= now - retainLogHours that existed before the sweep
\* (the entry just appended included) still exists: whatever appends and sweeps
\* came before.
C3_SweepDeletesExactlyTheExpired ==
    [][SweepRan =>
         LET cutoff == now - retainLogHours * TicksPerHour
         IN  /\ \A plan \in QueryPlans :
                  \A r \in Range(getLogs(logs', NoFilter, plan).logs) :
                      InstantOf(r.timestamp) >= cutoff
             /\ \A r \in logs : InstantOf(r.timestamp) >= cutoff => r \in logs'
             /\ \E r \in logs' : r.id = seq' /\ InstantOf(r.timestamp) = now]_vars

\* a sweep has deleted an entry and kept two
C3_Witness ==
    /\ Len(appended) > Cardinality(logs)
    /\ Cardinality(logs) >= 2
    /\ waitUntil # <<>>

\* C11: ids are unique; the id of a newly appended entry is greater than every id
\* assigned before, those of entries since deleted included; the timestamp, level
\* and message of an existing entry never change; an entry leaves the store only
\* in a step whose retention sweep ran.
C11_IdsGrowAndEntriesStay ==
    [][/\ \A r \in logs' : \A q \in logs' : r.id = q.id => r = q
       /\ \A r \in logs' \ logs :
             /\ r.id > Len(appended)
             /\ r.id > seq
             /\ \A q \in logs : r.id > q.id
       /\ \A r \in logs : r \in logs' \/ (SweepRan /\ \A q \in logs' : q.id # r.id)]_vars

\* an entry was appended after a sweep had deleted earlier ones
C11_Witness ==
    /\ Len(appended) >= 3
    /\ Cardinality(logs) = 2
    /\ \A r \in logs : r.id >= 2

\* C12: a change of retainLogHours deletes nothing by itself and hands nothing to
\* waitUntil; the next sweep, and every later one, keeps exactly the entries
\* whose timestamp is not before now minus the retainLogHours current when the
\* sweep runs, whatever the value was when the entries were written.
C12_RetentionChangeWaitsForTheSweep ==
    [][/\ retainLogHours' # retainLogHours => logs' = logs /\ waitUntil' = waitUntil
       /\ SweepRan =>
             logs' \cap logs =
                 {r \in logs : InstantOf(r.timestamp) >= now - retainLogHours' * TicksPerHour}]_vars

\* under the shorter retention a sweep has deleted entries that the default
\* retention, in force at construction, keeps at this instant
C12_Witness ==
    /\ retainLogHours = CustomRetainLogHours
    /\ now = StartOfTime + JumpTicks
    /\ Len(appended) > Cardinality(logs)
    /\ logs # {}
    /\ \A r \in logs : InstantOf(r.timestamp) = now

\* C5: if the INSERT of an append fails, the caller of log/warn/error gets the
\* exception, no entry is added to the store and nothing is handed to waitUntil.
C5_InsertFailureSurfaces ==
    [][AppendCall /\ sqlFault = "insert" =>
         /\ ret'.kind = "threw"
         /\ logs' = logs
         /\ seq' = seq
         /\ waitUntil' = waitUntil]_vars

\* an append has thrown on a store that holds an earlier entry
C5_Witness ==
    /\ ret.kind = "threw"
    /\ sqlFault = "insert"
    /\ logs # {}

\* C6: if the DELETE of a retention sweep fails, the append that ran the sweep
\* still returns normally with its entry stored, and the failure adds no entry of
\* its own to the store.
C6_SweepFailureIsContained ==
    [][AppendCall /\ sqlFault = "delete" =>
         /\ ret'.kind = "void"
         /\ logs \subseteq logs'
         /\ Cardinality(logs') = Cardinality(logs) + 1
         /\ \E r \in logs' :
               /\ r.id = seq'
               /\ r.level = appended'[Len(appended')].level
               /\ r.message = MessageOf(appended'[Len(appended')].payload)
         /\ waitUntil' = Append(waitUntil, "rejected")]_vars

\* an append has returned although its sweep failed
C6_Witness ==
    /\ ret.kind = "void"
    /\ sqlFault = "delete"
    /\ waitUntil # <<>>
    /\ waitUntil[Len(waitUntil)] = "rejected"
    /\ Cardinality(logs) >= 2

\* the payload of the append that wrote row r
PayloadOf(r) == appended[r.id].payload

C8_Claim ==
    ret.kind = "result" /\ asked.limit = Undefined =>
        /\ Range(ret.logs) = {r \in logs : Satisfies(r, asked)}
        /\ ret.total = Cardinality({r \in logs : Satisfies(r, asked)})

\* C9: getLogs returns the matching entries oldest-first, and with limit l and
\* offset o the l entries that follow the first o entries of that order.
C9_Claim ==
    ret.kind = "result" =>
        \E idsAscending \in BOOLEAN :
            ret.logs = Paginate(Ascending(Where(logs, asked), idsAscending), asked)

\* a limit parameter that is a number above zero
ValidNumber(param, least) ==
    /\ Has(param)
    /\ ParseInt(param.v) # NaN
    /\ ParseInt(param.v).v[1] >= least

\* the request with every missing or malformed parameter put to its default
WithDefaults(request) ==
    [request EXCEPT
        !.level = IF Has(@) /\ @.v \in Levels THEN @ ELSE Undefined,
        !.limit = IF ValidNumber(@, 1) THEN @ ELSE StringValue(NumberToString(DefaultLimit)),
        !.offset = IF ValidNumber(@, 0) THEN @ ELSE StringValue(<<"0">>)]

\* C10: every GET to the log path is answered; a missing or malformed limit
\* (non-numeric, empty, zero, negative) behaves as limit 100, a missing or
\* malformed offset as offset 0, a level outside {info, warn, error} as no level,
\* so that no response holds more than 100 logs unless a valid larger limit was
\* given.
C10_Claim ==
    ret.kind \in {"response", "null"} /\ asked.method = "GET" /\ asked.pathname = "/log" =>
        /\ ret.kind = "response"
        /\ \E plan \in QueryPlans : ret = handleLogRequest(logs, WithDefaults(asked), plan)
        /\ ~ValidNumber(asked.limit, DefaultLimit + 1) => Len(ret.logs) <= DefaultLimit

\* the line that is to separate the replay from the live entries
SeparatorLine ==
    [id |-> 0, timestamp |-> <<>>, level |-> <<>>,
     message |-> <<"-", "-", "-", " ", "L", "i", "v", "e", " ", "l", "o", "g", "s", " ",
                   "s", "t", "a", "r", "t", " ", "h", "e", "r", "e", " ", "-", "-", "-">>]

\* C13: the sweep an append triggers is backgrounded: an append that returns has
\* handed exactly one sweep to waitUntil, and the sweep's DELETE has not executed
\* when log/warn/error returns, so the store then holds what it held before and
\* the new entry.
C13_Claim ==
    [][AppendCall /\ ret'.kind = "void" =>
         /\ Len(waitUntil') = Len(waitUntil) + 1
         /\ logs \subseteq logs'
         /\ Cardinality(logs') = Cardinality(logs) + 1]_vars

\* C14: for every from/to bound getLogs accepts (a Date, an ISO-8601 string, the
\* README's form without a fraction included) the comparison of strings selects
\* exactly the entries whose instant lies within [from, to]: none written at or
\* after from is left out, none written after to is let in.
C14_Claim ==
    /\ ret.kind = "result"
    /\ asked.level = Undefined /\ asked.search = Undefined /\ asked.limit = Undefined
    => Range(ret.logs) = {r \in logs : Satisfies(r, asked)}

\* the step is a read: getLogs, handleLogRequest or fetch answers
ReadStep == Idle /\ ret'.kind \in {"result", "response", "null", "notFound"}

\* C15: a read (getLogs with any filter; handleLogRequest or the default fetch
\* with any method, path, parameters and Accept header) adds, deletes and modifies
\* no entry, assigns no id and hands nothing to waitUntil; to a request that is
\* not a GET of the log path handleLogRequest answers null (fetch: 404), and
\* would whatever the store held.
C15_ReadsLeaveTheStoreUnchanged ==
    [][ReadStep =>
         /\ logs' = logs
         /\ seq' = seq
         /\ waitUntil' = waitUntil
         /\ retainLogHours' = retainLogHours
         /\ (ret'.kind # "result" /\ ~(asked'.method = "GET" /\ asked'.pathname = "/log")) =>
               /\ ret' \in {Null, NotFound}
               /\ \A table \in SUBSET logs : \A plan \in QueryPlans :
                     handleLogRequest(table, asked', plan) = Null]_vars

\* the default fetch has answered 404 to a POST, the store holding two entries
\* and the sweeps of their appends behind it
C15_Witness ==
    /\ ret = NotFound
    /\ asked.method = "POST"
    /\ Cardinality(logs) >= 2
    /\ Len(waitUntil) >= 2

\* C4: a client that requested the log path at time T and has stayed while K
\* further appends happened has received the entries with timestamp <= T
\* oldest-first, then the separator line once, then the K new entries in append
\* order.
C4_Claim ==
    tail.requested =>
        tail.body = Ascending({r \in tail.history : InstantOf(r.timestamp) <= tail.at}, TRUE)
                    \o <<SeparatorLine>>
                    \o Ascending({r \in logs : r.id > tail.seq}, TRUE)

====
